---- MODULE Spec2Model ----
(***************************************************************************)
(* Multi-Agent RAG: the interactive query loop of main.py, the Retrieval   *)
(* Tool and the Web Tool of tools.py, and the gateways they call           *)
(* (data_pipeline.get_google_embeddings, vector_store.search_vectors).     *)
(*                                                                         *)
(* A Python string is modelled as a sequence of string pieces (a Text):    *)
(* the string is the concatenation of the pieces.  An f-string yields one  *)
(* piece per literal part and one per interpolated value.                  *)
(* A Python call that may raise is modelled by an Outcome record           *)
(* [raised, exc, val].                                                     *)
(***************************************************************************)
EXTENDS Integers, Sequences, FiniteSets, TLC

\* ------------------------------------------------------------------ bounds
\* Query turns started in one run of the loop.
MaxTurns == 2
\* Tool invocations the opaque agent framework makes within one agent run.
MaxToolCalls == 1
\* Results the web-search gateway returns in one call (<= WEB_SEARCH_MAX_RESULTS).
MaxWebDocs == 2
\* Ctrl+C presses and cancellations in one run of the loop.
MaxInterrupts == 2
MaxRuns == 2
MaxChunks == 2

\* ------------------------------------------------------- program constants
VECTOR_SIZE == 768
RAG_TOP_K == 3
WEB_SEARCH_MAX_RESULTS == 5
SEPARATOR_WIDTH == 70

\* -------------------------------------------------------------- outcomes
Return(v) == [raised |-> FALSE, exc |-> "", val |-> v]
Raise(e) == [raised |-> TRUE, exc |-> e, val |-> <<>>]

\* ------------------------------------------------------------------ texts
\* "\n\n---\n\n", the separator of both tools' join
SEP == "\n\n---\n\n"

RECURSIVE Join(_)
\* sep.join(pieces) for the separator SEP: pieces is a sequence of Texts
Join(pieces) ==
    IF pieces = <<>> THEN <<>>
    ELSE IF Len(pieces) = 1 THEN pieces[1]
    ELSE pieces[1] \o <<SEP>> \o Join(Tail(pieces))

Pad4(n) ==
    IF n < 10 THEN "000" \o ToString(n)
    ELSE IF n < 100 THEN "00" \o ToString(n)
    ELSE IF n < 1000 THEN "0" \o ToString(n)
    ELSE ToString(n)

\* f"{score:.4f}" of a score held in ten-thousandths (8512 is 0.8512)
Fmt4f(s) == ToString(s \div 10000) \o "." \o Pad4(s % 10000)

\* -------------------------------------------------- embedding gateway
\* What genai does when asked for embeddings: configure() raises, embed_content()
\* raises, the result has no 'embedding' list, or it carries a list of vectors.
\* A vector is a sequence of numbers; only its emptiness matters downstream.
Vec == <<1, 0>>
EmbeddingApiOutcomes ==
    { [kind |-> "configure_raises", embedding |-> <<>>],
      [kind |-> "embed_raises", embedding |-> <<>>],
      [kind |-> "bad_structure", embedding |-> <<>>],
      [kind |-> "ok", embedding |-> <<>>],
      [kind |-> "ok", embedding |-> << <<>> >>],
      [kind |-> "ok", embedding |-> <<Vec>>],
      [kind |-> "ok", embedding |-> <<Vec, Vec>>] }

get_google_embeddings(texts, api_key, api) ==
    IF texts = <<>> THEN Return(<<>>)
    ELSE IF ~api_key THEN Raise("Google API Key not configured")
    ELSE IF api.kind = "configure_raises"
         THEN Raise("Failed to configure genai for embeddings")
    ELSE IF api.kind = "embed_raises" THEN Raise("embed_content failed")
    ELSE IF api.kind = "bad_structure"
         THEN Raise("Embedding API did not return expected structure.")
    ELSE Return(api.embedding)

\* ------------------------------------------------------- vector index
\* A hit's payload: absent (None), present without "content", or with content.
NoPayload == [present |-> FALSE, has_content |-> FALSE, content |-> ""]
EmptyPayload == [present |-> TRUE, has_content |-> FALSE, content |-> ""]
ContentPayload(c) == [present |-> TRUE, has_content |-> TRUE, content |-> c]

Contents == {"chunk A", "chunk B"}
Payloads == {NoPayload, EmptyPayload} \cup {ContentPayload(c) : c \in Contents}
\* Scores in ten-thousandths, as the index ranks them: best first.
ScoreLists == { <<10000, 8512, 45>> }

\* The index returns at most `limit` hits, best score first.
HitLists(limit) ==
    { [i \in 1..n |-> [score |-> sc[i], payload |-> pl[i]]] :
        <<n, sc, pl>> \in
          UNION { {n} \X ScoreLists \X [1..n -> Payloads] : n \in 0..limit } }

\* What client.search does: raises UnexpectedResponse, raises something else,
\* or returns hits.  "not_called" stands for a search that is never issued.
NoSearch == [kind |-> "not_called", hits |-> <<>>]
SearchApiOutcomes ==
    { [kind |-> "unexpected_response", hits |-> <<>>],
      [kind |-> "raises", hits |-> <<>>] }
    \cup { [kind |-> "ok", hits |-> h] : h \in HitLists(RAG_TOP_K) }

\* the except clauses returning a hit without payload in place of []
SearchExceptPlaceholder(api) == <<[score |-> 0, payload |-> NoPayload]>>

\* vector_store.py 128-135: both except clauses return []
SearchExcept(api) == <<>>

search_vectors(query_embedding, api) ==
    IF query_embedding = <<>> THEN <<>>
    ELSE IF api.kind = "ok" THEN api.hits
    ELSE SearchExcept(api)

\* ----------------------------------------------------- Retrieval Tool
ERR_NO_CLIENT == <<"Error: Vector search cannot be performed due to missing client setup.">>
ERR_NO_EMBEDDING == <<"Error: Could not generate embedding for the search query.">>
NOTHING_FOUND == <<"No relevant documents found in the knowledge base for this query.">>
CONTENT_UNAVAILABLE == <<"Found relevant document references, but could not retrieve their content.">>
VS_UNEXPECTED == "An unexpected error occurred during vector search: "

\* {i} in place of {i+1}: documents numbered from 0
DocumentPieceFromZero(i, doc) ==
    <<"Document ", ToString(i), " (Score: ", Fmt4f(doc.score), "):\n",
      doc.payload.content>>

\* f"Document {i+1} (Score: {doc.score:.4f}):\n{doc.payload['content']}"; i is 0-based
DocumentPiece(i, doc) ==
    <<"Document ", ToString(i + 1), " (Score: ", Fmt4f(doc.score), "):\n",
      doc.payload.content>>

\* the test of line 70 left out: every hit is formatted
HasContentAlways(doc) == TRUE

\* line 70: doc.payload and "content" in doc.payload
HasContent(doc) == doc.payload.present /\ doc.payload.has_content

RECURSIVE ContextPieces(_, _)
\* the loop of lines 69-74 from 0-based index i on: one piece per hit with content
ContextPieces(results, i) ==
    IF i >= Len(results) THEN <<>>
    ELSE IF HasContent(results[i + 1])
         THEN <<DocumentPiece(i, results[i + 1])>> \o ContextPieces(results, i + 1)
         ELSE ContextPieces(results, i + 1)

\* the test of lines 64-66 left out: an empty result set is formatted like any other
FormatResultsUnchecked(results) == Join(ContextPieces(results, 0))

\* step 3 of the tool: format the hits
FormatResults(results) ==
    IF results = <<>> THEN NOTHING_FOUND
    ELSE LET pieces == ContextPieces(results, 0)
         IN  IF pieces = <<>> THEN CONTENT_UNAVAILABLE ELSE Join(pieces)

\* the body of the tool's try block
VectorSearchBody(query, api_key, emb_api, search_api) ==
    LET query_embedding == get_google_embeddings(<<query>>, api_key, emb_api)
    IN  IF query_embedding.raised THEN query_embedding
        ELSE IF query_embedding.val = <<>> THEN Return(ERR_NO_EMBEDDING)
        ELSE Return(FormatResults(search_vectors(query_embedding.val[1], search_api)))

\* the except clause of lines 84-87 re-raising
VectorSearchExceptRaises(r) == r

\* the tool's except clause: any exception becomes a string
VectorSearchExcept(r) == Return(<<VS_UNEXPECTED, r.exc>>)

vector_search_tool(client, query, api_key, emb_api, search_api) ==
    IF ~client THEN Return(ERR_NO_CLIENT)
    ELSE LET r == VectorSearchBody(query, api_key, emb_api, search_api)
         IN  IF r.raised THEN VectorSearchExcept(r) ELSE r

\* the search outcomes worth drawing for an embedding outcome: the index is only
\* asked when the embedding call returned a non-empty list with a non-empty vector
SearchOutcomesFor(emb_api) ==
    IF emb_api.kind = "ok" /\ emb_api.embedding # <<>> /\ emb_api.embedding[1] # <<>>
    THEN SearchApiOutcomes ELSE {NoSearch}

\* ----------------------------------------------------------- Web Tool
NO_WEB_RESULTS == <<"No relevant results found on the web for this query.">>
WS_UNEXPECTED == "An unexpected error occurred during web search: "

\* A gateway result is a dict; title, body and href may each be missing.
WebDoc(t, b, h) ==
    [has_title |-> t # "", title |-> t, has_body |-> b # "", body |-> b,
     has_href |-> h # "", href |-> h]
WebDocs == { WebDoc("T1", "B1", "http://u1"), WebDoc("", "B2", "http://u2"),
             WebDoc("", "", "") }

\* What DDGS(timeout=20).text(query, max_results=...) does on the worker thread.
GatewayOutcomes ==
    { [kind |-> "raises", results |-> <<>>] }
    \cup { [kind |-> "ok", results |-> r] :
             r \in { x \in UNION { [1..n -> WebDocs] : n \in 0..MaxWebDocs } :
                      Len(x) <= WEB_SEARCH_MAX_RESULTS } }
NoGateway == [kind |-> "none", results |-> <<>>]

\* f"Result {i+1}: {title}\nURL: {url}\nSnippet: {body}" with the .get defaults
ResultPiece(i, doc) ==
    <<"Result ", ToString(i + 1), ": ",
      IF doc.has_title THEN doc.title ELSE "No Title",
      "\nURL: ",
      IF doc.has_href THEN doc.href ELSE "No URL",
      "\nSnippet: ",
      IF doc.has_body THEN doc.body ELSE "No snippet available.">>

\* the body of the tool's try block, resumed with the executor's outcome g
WebSearchBody(g) ==
    IF g.kind = "raises" THEN Raise("gateway error")
    ELSE IF g.results = <<>> THEN Return(NO_WEB_RESULTS)
    ELSE Return(Join([i \in 1..Len(g.results) |-> ResultPiece(i - 1, g.results[i])]))

\* the except clause of lines 134-137 re-raising
WebSearchExceptRaises(r) == r

\* the tool's except clause
WebSearchExcept(r) == Return(<<WS_UNEXPECTED, r.exc>>)

web_search_tool(g) ==
    LET r == WebSearchBody(g) IN IF r.raised THEN WebSearchExcept(r) ELSE r

\* ------------------------------------------------------------- agents
ROUTER_SYSTEM_PROMPT == "You are an intelligent routing agent..."
RAG_SYSTEM_PROMPT == "You are a helpful Retrieval-Augmented Generation assistant..."
WEB_SEARCH_SYSTEM_PROMPT == "You are a helpful Web Search assistant..."
DIRECT_PROMPT == "As an AI assistant, answer concisely based on general knowledge. Do not mention searching or tools."
VECTOR_TOOL == "VectorSearchKnowledgeBase"
WEB_TOOL == "WebSearchCurrentEvents"
\* tools=[...] of create_rag_agent and create_web_search_agent
RAG_TOOLS == <<VECTOR_TOOL>>
WEB_TOOLS == <<WEB_TOOL>>

\* RoutingDecision(vector_search, web_search)
RoutingDecision(v, w) == [vector_search |-> v, web_search |-> w]

\* What router_agent.run(query) yields: it raises, its result is falsy, its
\* result's data is not a RoutingDecision, or its data is a RoutingDecision.
RouterOutputs ==
    { [kind |-> "none", vector_search |-> FALSE, web_search |-> FALSE],
      [kind |-> "other", vector_search |-> FALSE, web_search |-> FALSE] }
    \cup { [kind |-> "decision", vector_search |-> v, web_search |-> w] :
             v \in BOOLEAN, w \in BOOLEAN }
RouterRaised == [kind |-> "raise", vector_search |-> FALSE, web_search |-> FALSE]
NoRouterOutput == [kind |-> "pending", vector_search |-> FALSE, web_search |-> FALSE]

\* line 67 left out: the turn starts from the previous turn's decision
InitialDecisionKept(prev) == prev

\* line 67: the decision a turn starts from (prev is the previous turn's)
InitialDecision(prev) == RoutingDecision(FALSE, FALSE)

\* lines 73-75 left out: the Router's flags are taken as they come
EffectiveDecisionAsRouted(current, out) ==
    IF out.kind = "decision"
    THEN RoutingDecision(out.vector_search, out.web_search)
    ELSE current

\* lines 71-77: the decision after the Router returned `out`
EffectiveDecision(current, out) ==
    IF out.kind = "decision"
    THEN IF out.vector_search /\ out.web_search
         THEN RoutingDecision(TRUE, FALSE)
         ELSE RoutingDecision(out.vector_search, out.web_search)
    ELSE current

\* the tests of lines 87 and 94 exchanged
SelectBranchExchanged(d) ==
    IF d.web_search THEN "rag" ELSE IF d.vector_search THEN "web" ELSE "direct"

\* lines 87, 94, 100: the branch taken
SelectBranch(d) ==
    IF d.vector_search THEN "rag" ELSE IF d.web_search THEN "web" ELSE "direct"

AgentUsed(branch) ==
    IF branch = "rag" THEN "RAG Agent (Vector Search)"
    ELSE IF branch = "web" THEN "Web Search Agent"
    ELSE "Direct Answer Agent"

\* ------------------------------------------------------ Python values
\* final_answer: None or a str
None == [is_none |-> TRUE, text |-> <<>>]
Str(t) == [is_none |-> FALSE, text |-> t]
Truthy(x) == ~x.is_none /\ x.text # <<>>

Whitespace == {" ", "\t", "\n"}

RECURSIVE LStrip(_)
LStrip(s) == IF s # <<>> /\ Head(s) \in Whitespace THEN LStrip(Tail(s)) ELSE s

RECURSIVE RStrip(_)
RStrip(s) ==
    IF s # <<>> /\ s[Len(s)] \in Whitespace THEN RStrip(SubSeq(s, 1, Len(s) - 1)) ELSE s

\* str.strip()
Strip(s) == RStrip(LStrip(s))

LowerChar(c) ==
    CASE c = "Q" -> "q" [] c = "U" -> "u" [] c = "I" -> "i" [] c = "T" -> "t"
      [] c = "H" -> "h" [] OTHER -> c

\* str.lower()
\* line 59 comparing the line as typed, without lower()
LowerIdentity(s) == s

Lower(s) == [i \in DOMAIN s |-> LowerChar(s[i])]

QUIT == <<"q", "u", "i", "t">>

\* Lines typed at the prompt, character by character.
Lines ==
    { <<>>, <<" ", "\t">>, QUIT, <<" ", "Q", "u", "I", "T", " ">>,
      <<"h", "i">>, <<" ", "h", "i", "\t">>, <<"q", "u", "i", "t", "s">> }

\* What an agent run hands back: a falsy result, or a result whose data is
\* None or a text.
RunResults ==
    { [falsy |-> TRUE, data |-> None], [falsy |-> FALSE, data |-> None] }
    \cup { [falsy |-> FALSE, data |-> Str(t)] :
             t \in { <<>>, <<" ">>, <<"answer">>, <<" ", "answer", "\n">> } }

\* result.data if result else None
DataOf(result) == IF result.falsy THEN None ELSE result.data

\* line 118
ErrorAnswer(agent) ==
    Str(<<"Error processing request via " \o agent \o ". Please check logs.">>)

RECURSIVE Repeat(_, _)
Repeat(c, n) == IF n = 0 THEN "" ELSE c \o Repeat(c, n - 1)

\* lines 121-130: what the display step prints
Displayed(answer, agent) ==
    << <<"\n--- Final Answer ---">>,
       IF Truthy(answer) THEN Strip(answer.text)
       ELSE <<"<", agent, " could not generate a response.>">>,
       <<"\n", Repeat("=", SEPARATOR_WIDTH), "\n">> >>

\* ================================================================ state
\* ------------------------------------------------------------ ingestion
\* The two operating-system processes that may run ingest_data.py at once.
Writers == {"A", "B"}

\* The URL argument: its first piece is what startswith() looks at.  One URL
\* that is accepted, and four that are not: another scheme, the scheme in
\* capitals, no scheme, and the empty string.
Urls ==
    { <<"https://", "site/a">>, <<"ftp://", "site/a">>, <<"HTTP://", "site/a">>,
      <<"site/a">>, <<>> }

\* line 77 left out: every argument is handed to ingest()
ValidUrlAny(u) == TRUE

\* line 77 of ingest_data.py
ValidUrl(u) == u # <<>> /\ (u[1] = "http://" \/ u[1] = "https://")

\* A page of k chunk-sized pieces.
Page(k) == [i \in 1..k |-> "chunk " \o ToString(i)]

\* What the reader gateway answers: nothing (None, after an error), an empty
\* page, a blank page, or a page of text.
FetchOutcomes ==
    {None, Str(<<>>), Str(<<" ", "\n">>)} \cup { Str(Page(k)) : k \in 1..MaxChunks }

clean_text(text) == Strip(text)

NotBlank(piece) == piece \notin Whitespace

\* The splitter cuts the cleaned text into its chunk-sized pieces and keeps no
\* blank chunk; building the tokenizer may raise.
split_text(text) == SelectSeq(clean_text(text), NotBlank)
SplitOutcomes(text) == {Return(split_text(text)), Raise("tokenizer unavailable")}

\* What genai does for n chunks: one of the failures, or between 0 and n + 1 vectors.
IngestEmbeddingOutcomes(n) ==
    { [kind |-> k, embedding |-> <<>>] :
        k \in {"configure_raises", "embed_raises", "bad_structure"} }
    \cup { [kind |-> "ok", embedding |-> [i \in 1..k |-> Vec]] : k \in 0..(n + 1) }

\* line 38 accepting any non-empty list of embeddings
EmbeddingsUsableUncounted(embs, chunks) == embs # <<>>

\* line 38: not (not embeddings or len(embeddings) != len(text_chunks))
EmbeddingsUsable(embs, chunks) == embs # <<>> /\ Len(embs) = Len(chunks)

\* line 25 letting an empty list of chunks through
HasChunksAlways(chunks) == TRUE

\* line 25: not (not text_chunks)
HasChunks(chunks) == chunks # <<>>

\* line 50: one payload per chunk
BuildPayloads(u, chunks) ==
    [i \in DOMAIN chunks |-> [url_source |-> u, content |-> chunks[i]]]

\* The collection as the index server holds it.
Absent == [exists |-> FALSE, size |-> 0, metric |-> ""]
Collection(size, metric) == [exists |-> TRUE, size |-> size, metric |-> metric]
METRIC == "COSINE"
Configured == Collection(VECTOR_SIZE, METRIC)
InitialCollections == {Absent, Configured, Collection(VECTOR_SIZE + 1, "DOT")}

\* line 31 creating whatever collection_exists answered
NeedsCreateAlways(exists) == TRUE

\* line 31: if not client.collection_exists(...)
NeedsCreate(exists) == ~exists

\* lines 79-84 starting from 0 whatever the count
StartIdZero(count) == 0

\* lines 79-84: the exact count, or 0 when the count call raised
StartId(count) == IF count.raised THEN 0 ELSE count.val

\* line 85: list(range(start_id, start_id + num_vectors))
Ids(start, num_vectors) == [i \in 1..num_vectors |-> start + i - 1]

\* lines 92-95: zip(ids, embeddings, payloads) stops at the shortest of the three
Zipped(ids, embs, payloads) ==
    LET n == CHOOSE k \in {Len(ids), Len(embs), Len(payloads)} :
                 k <= Len(ids) /\ k <= Len(embs) /\ k <= Len(payloads)
    IN  [ids |-> SubSeq(ids, 1, n), payloads |-> SubSeq(payloads, 1, n)]

\* the server's upsert: a point is written under each id, replacing any point
\* already stored under it
Upserted(pts, ids, payloads) ==
    [id \in DOMAIN pts \cup {ids[i] : i \in DOMAIN ids} |->
        IF \E i \in DOMAIN ids : ids[i] = id
        THEN payloads[CHOOSE i \in DOMAIN ids : ids[i] = id]
        ELSE pts[id]]

VARIABLES
    pc,              \* position of main() in its loop
    query,           \* the stripped input line
    decision,        \* the RoutingDecision of the turn
    final_answer,    \* None or a str
    agent_used,
    original_tools,  \* locals of the direct branch
    original_prompt,
    exc,             \* the exception in flight while the finally block runs
    router_auto,     \* router_agent.auto_execute_tools
    rag_auto,        \* rag_agent.auto_execute_tools
    web_tools,       \* web_search_agent.tools
    web_prompt,      \* web_search_agent.system_prompt
    web_auto,        \* web_search_agent.auto_execute_tools
    vs_in,           \* collaborators' outcomes of the last Retrieval Tool call
    vs_out,          \* its outcome
    ws_state,        \* Web Tool: "idle", "submitted" (worker running), "done"
    ws_thread,       \* the thread the gateway call was given to, "none" when idle
    ws_in,           \* the gateway's outcome on the worker
    ws_out,          \* the Web Tool's outcome
    stdout,          \* what the display step of the last turn printed
    stderr,          \* the handlers whose traceback.print_exc() wrote a stack trace in the turn
    \* history of the current turn
    turn,            \* number of turns started
    router_out,      \* what the Router did
    gen_log,         \* the generation calls: agent and its configuration at the call
    tool_calls,      \* names of the tools invoked, in order
    gen_raised,      \* a generation call raised an Exception
    interrupts,      \* KeyboardInterrupts and cancellations delivered so far
    loop_exc,        \* the last exception that reached the loop's own handlers
    \* startup
    api_key,         \* GOOGLE_API_KEY as the environment gives it: None or a str
    connected,       \* main() holds a client connected to the index
    created,         \* the agents main() has created, in order
    \* the index server
    coll,            \* the collection: absent, or present with its size and metric
    points,          \* the stored points: id -> payload
    \* one ingestion run per writer (ingest_data.py)
    ipc,             \* position of the run
    url,             \* the URL argument
    content,         \* what fetch_url_content returned
    text_chunks,
    embeddings,
    exists_seen,     \* what collection_exists answered
    start_id,
    status,          \* how the run ended, "running" until then
    stages,          \* the stages the run has entered, in order
    \* history
    count_ok,        \* the run's count call answered
    count_at,        \* the collection's point count when the run asked for it
    clobbered,       \* the run's upsert replaced points already stored
    snap,            \* the collection and its points when the run started
    quiet,           \* no other run has written to the index since the run started
    runs,            \* number of runs started
    uploaded,        \* number of vectors upserted so far
    overlapped       \* two runs have been in flight at the same time

vars ==
    <<pc, query, decision, final_answer, agent_used, original_tools, original_prompt,
      exc, router_auto, rag_auto, web_tools, web_prompt, web_auto, vs_in, vs_out,
      ws_state, ws_thread, ws_in, ws_out, stdout, stderr, turn, router_out, gen_log,
      tool_calls, gen_raised, interrupts, loop_exc, api_key, connected, created,
      coll, points, ipc, url, content,
      text_chunks, embeddings, exists_seen, start_id, status, stages, count_ok,
      count_at, clobbered, snap, quiet, runs, uploaded, overlapped>>

ivars ==
    <<coll, points, ipc, url, content, text_chunks, embeddings, exists_seen,
      start_id, status, stages, count_ok, count_at, clobbered, snap, quiet, runs,
      uploaded, overlapped>>
loopvars ==
    <<pc, query, decision, final_answer, agent_used, original_tools, original_prompt,
      exc, router_auto, rag_auto, web_tools, web_prompt, web_auto, vs_in, vs_out,
      ws_state, ws_thread, ws_in, ws_out, stdout, stderr, turn, router_out, gen_log,
      tool_calls, gen_raised, interrupts, loop_exc, api_key, connected, created>>
boot == <<api_key, connected, created>>
locals == <<query, decision, final_answer, agent_used, original_tools, original_prompt>>
agents == <<router_auto, rag_auto, web_tools, web_prompt, web_auto>>
toolvars == <<vs_in, vs_out, ws_state, ws_thread, ws_in, ws_out>>
history == <<turn, router_out, gen_log, tool_calls, gen_raised>>

NoVsIn == [emb |-> [kind |-> "none", embedding |-> <<>>], search |-> NoSearch]

\* What the environment and .env give for GOOGLE_API_KEY: nothing, an empty
\* value, or a key.
SetKey == Str(<<"key">>)
Keys == {None, Str(<<>>), SetKey}

\* the tests of the key left out
KeyMissingNever(key) == FALSE

\* config.py line 27 and main.py line 22: not GOOGLE_API_KEY
KeyMissing(key) == ~Truthy(key)

\* the agents in the order main() creates them (lines 42-44)
AGENTS == <<"router", "rag", "web">>

\* No ingestion run has started; the collection is c and holds no point.
IndexStart(c) ==
    /\ coll = c
    /\ points = <<>>
    /\ ipc = [w \in Writers |-> "idle"]
    /\ url = [w \in Writers |-> <<>>]
    /\ content = [w \in Writers |-> None]
    /\ text_chunks = [w \in Writers |-> <<>>]
    /\ embeddings = [w \in Writers |-> <<>>]
    /\ exists_seen = [w \in Writers |-> FALSE]
    /\ start_id = [w \in Writers |-> 0]
    /\ status = [w \in Writers |-> "idle"]
    /\ stages = [w \in Writers |-> <<>>]
    /\ count_ok = [w \in Writers |-> FALSE]
    /\ count_at = [w \in Writers |-> 0]
    /\ clobbered = [w \in Writers |-> FALSE]
    /\ snap = [w \in Writers |-> <<c, <<>> >>]
    /\ quiet = [w \in Writers |-> TRUE]
    /\ runs = 0
    /\ uploaded = 0
    /\ overlapped = FALSE

\* The state when the process starts: nothing is imported yet; the agents'
\* fields hold the values create_*_agent will give them (agents.py).
LoopStart ==
    /\ pc = "import"
    /\ connected = FALSE
    /\ created = <<>>
    /\ query = <<>>
    /\ decision = RoutingDecision(FALSE, FALSE)
    /\ final_answer = None
    /\ agent_used = "None"
    /\ original_tools = <<>>
    /\ original_prompt = ""
    /\ exc = "none"
    /\ router_auto = TRUE
    /\ rag_auto = TRUE
    /\ web_tools = WEB_TOOLS
    /\ web_prompt = WEB_SEARCH_SYSTEM_PROMPT
    /\ web_auto = TRUE
    /\ vs_in = NoVsIn
    /\ vs_out = Return(<<>>)
    /\ ws_state = "idle"
    /\ ws_thread = "none"
    /\ ws_in = NoGateway
    /\ ws_out = Return(<<>>)
    /\ stdout = <<>>
    /\ stderr = {}
    /\ turn = 0
    /\ router_out = NoRouterOutput
    /\ gen_log = <<>>
    /\ tool_calls = <<>>
    /\ gen_raised = FALSE
    /\ interrupts = 0
    /\ loop_exc = "none"

Init == LoopStart /\ api_key \in Keys /\ IndexStart(Absent)

\* the loop's handlers, lines 132-137: where an exception leaving the turn goes
OuterHandler(e) ==
    IF e \in {"KeyboardInterrupt", "EOFError"} THEN "shutdown"
    ELSE IF e = "Exception" THEN "input"
    ELSE "cancelled"

\* lines 134-137: the loop's last handler prints the stack trace of an Exception
LoopTrace(e) == IF e = "Exception" THEN {"loop"} ELSE {}

\* the except clause of line 115 left out
ExecutionCatchesNothing(e) == FALSE

\* line 115: the execution try block catches Exception only
ExecutionCatches(e) == e = "Exception"

\* the finally block left out: the mutated values stay
RestoredToolsMissing(saved, current) == current
RestoredPromptMissing(saved, current) == current

\* lines 113-114: what the finally block writes back
RestoredTools(saved, current) == saved
RestoredPrompt(saved, current) == saved

\* --------------------------------------------------------- startup
\* main.py lines 13-16, config.py 12-29: the modules are imported; config raises
\* ValueError when the key is missing, which ends the process
ImportConfig ==
    /\ pc = "import"
    /\ pc' = IF KeyMissing(api_key) THEN "exit" ELSE "check_key"
    /\ UNCHANGED <<locals, exc, agents, toolvars, stdout, stderr, history, interrupts,
                   loop_exc, boot, ivars>>

\* main.py lines 21-25: main() returns when the key is missing
CheckKey ==
    /\ pc = "check_key"
    /\ pc' = IF KeyMissing(api_key) THEN "exit" ELSE "connect_index"
    /\ UNCHANGED <<locals, exc, agents, toolvars, stdout, stderr, history, interrupts,
                   loop_exc, boot, ivars>>

\* main.py lines 28-37: connect to the index and set up the collection; a
\* failure of either is printed with its stack trace and main() returns
StartupIndex ==
    /\ pc = "connect_index"
    /\ \/ /\ connected' = TRUE
          /\ coll' = IF NeedsCreate(coll.exists) THEN Configured ELSE coll
          /\ pc' = "create_agents"
          /\ UNCHANGED stderr
       \/ /\ connected' \in BOOLEAN
          /\ pc' = "exit"
          /\ stderr' = stderr \cup {"startup"}
          /\ UNCHANGED coll
    /\ UNCHANGED <<locals, exc, agents, toolvars, stdout, history, interrupts, loop_exc,
                   api_key, created, points, ipc, url, content, text_chunks, embeddings,
                   exists_seen, start_id, status, stages, count_ok, count_at, clobbered,
                   snap, quiet, runs, uploaded, overlapped>>

\* main.py lines 40-53: create the three agents; a failure is printed with its
\* stack trace and main() returns
CreateAgents ==
    /\ pc = "create_agents"
    /\ \/ /\ created' = AGENTS
          /\ pc' = "input"
          /\ UNCHANGED stderr
       \/ /\ \E n \in 0..(Len(AGENTS) - 1) : created' = SubSeq(AGENTS, 1, n)
          /\ pc' = "exit"
          /\ stderr' = stderr \cup {"startup"}
    /\ UNCHANGED <<locals, exc, agents, toolvars, stdout, history, interrupts, loop_exc,
                   api_key, connected, ivars>>

\* ------------------------------------------------------------ the loop
\* lines 57-60: a line that strips to "quit" in any case ends the loop
InputQuit ==
    /\ pc = "input"
    /\ \E line \in Lines :
         /\ Lower(Strip(line)) = QUIT
         /\ query' = Strip(line)
    /\ pc' = "shutdown"
    /\ UNCHANGED <<decision, final_answer, agent_used, original_tools, original_prompt,
                   exc, agents, toolvars, stdout, stderr, history, interrupts, loop_exc>>
    /\ UNCHANGED <<boot, ivars>>

\* line 61: an empty line is skipped
InputEmpty ==
    /\ pc = "input"
    /\ \E line \in Lines :
         /\ Strip(line) = <<>>
         /\ query' = Strip(line)
    /\ UNCHANGED <<pc, decision, final_answer, agent_used, original_tools,
                   original_prompt, exc, agents, toolvars, stdout, stderr, history,
                   interrupts, loop_exc>>
    /\ UNCHANGED <<boot, ivars>>

\* lines 57-70: any other line starts a turn and calls the Router
InputQuery ==
    /\ pc = "input"
    /\ turn < MaxTurns
    /\ \E line \in Lines :
         /\ Lower(Strip(line)) # QUIT
         /\ Strip(line) # <<>>
         /\ query' = Strip(line)
    /\ decision' = InitialDecision(decision)
    /\ router_auto' = FALSE
    /\ pc' = "route"
    /\ turn' = turn + 1
    /\ router_out' = NoRouterOutput
    /\ gen_log' = <<>>
    /\ tool_calls' = <<>>
    /\ gen_raised' = FALSE
    /\ loop_exc' = "none"
    /\ stdout' = <<>>
    /\ stderr' = {}
    /\ UNCHANGED <<final_answer, agent_used, original_tools, original_prompt, exc,
                   rag_auto, web_tools, web_prompt, web_auto, toolvars, interrupts>>
    /\ UNCHANGED <<boot, ivars>>

\* line 133: end of input
InputEOF ==
    /\ pc = "input"
    /\ pc' = OuterHandler("EOFError")
    /\ loop_exc' = "EOFError"
    /\ UNCHANGED <<locals, exc, agents, toolvars, stdout, stderr, history, interrupts>>
    /\ UNCHANGED <<boot, ivars>>

\* lines 134-137: input() raises another exception (undecodable bytes): the loop
\* reports it and goes on
InputError ==
    /\ pc = "input"
    /\ pc' = OuterHandler("Exception")
    /\ loop_exc' = "Exception"
    /\ stderr' = stderr \cup LoopTrace("Exception")
    /\ UNCHANGED <<locals, exc, agents, toolvars, stdout, history, interrupts>>
    /\ UNCHANGED <<boot, ivars>>

\* lines 70-78: the Router returns
RouterReturns ==
    /\ pc = "route"
    /\ \E out \in RouterOutputs :
         /\ router_out' = out
         /\ decision' = EffectiveDecision(decision, out)
    /\ pc' = "select"
    /\ UNCHANGED <<query, final_answer, agent_used, original_tools, original_prompt,
                   exc, agents, toolvars, stdout, stderr, turn, gen_log, tool_calls,
                   gen_raised, interrupts, loop_exc>>
    /\ UNCHANGED <<boot, ivars>>

\* lines 79-81: the Router raises; the decision stays the one of line 67
RouterRaises ==
    /\ pc = "route"
    /\ router_out' = RouterRaised
    /\ stderr' = stderr \cup {"routing"}
    /\ pc' = "select"
    /\ UNCHANGED <<locals, exc, agents, toolvars, stdout, turn, gen_log, tool_calls,
                   gen_raised, interrupts, loop_exc>>
    /\ UNCHANGED <<boot, ivars>>

\* the configuration an agent run starts with
GenCall(agent, prompt, tools, auto) ==
    [agent |-> agent, prompt |-> prompt, tools |-> tools, auto |-> auto]

\* lines 84-92: the knowledge-base branch calls rag_agent.run
SelectRag ==
    /\ pc = "select"
    /\ SelectBranch(decision) = "rag"
    /\ final_answer' = None
    /\ agent_used' = AgentUsed("rag")
    /\ rag_auto' = TRUE
    /\ gen_log' = Append(gen_log, GenCall("rag", RAG_SYSTEM_PROMPT, RAG_TOOLS, TRUE))
    /\ pc' = "rag_run"
    /\ UNCHANGED <<query, decision, original_tools, original_prompt, exc, router_auto,
                   web_tools, web_prompt, web_auto, toolvars, stdout, stderr, turn, router_out,
                   tool_calls, gen_raised, interrupts, loop_exc>>
    /\ UNCHANGED <<boot, ivars>>

\* line 97 left out: auto_execute_tools stays as the last turn left it
WebAutoKept(current) == current

\* line 97: web_search_agent.auto_execute_tools = True
WebAutoSet(current) == TRUE

\* lines 84-85, 94-98: the web branch calls web_search_agent.run
SelectWeb ==
    /\ pc = "select"
    /\ SelectBranch(decision) = "web"
    /\ final_answer' = None
    /\ agent_used' = AgentUsed("web")
    /\ web_auto' = WebAutoSet(web_auto)
    /\ gen_log' = Append(gen_log, GenCall("web", web_prompt, web_tools, WebAutoSet(web_auto)))
    /\ pc' = "web_run"
    /\ UNCHANGED <<query, decision, original_tools, original_prompt, exc, router_auto,
                   rag_auto, web_tools, web_prompt, toolvars, stdout, stderr, turn, router_out,
                   tool_calls, gen_raised, interrupts, loop_exc>>
    /\ UNCHANGED <<boot, ivars>>

\* lines 84-85, 100-106: the direct branch saves the web agent's tools and prompt
SelectDirect ==
    /\ pc = "select"
    /\ SelectBranch(decision) = "direct"
    /\ final_answer' = None
    /\ agent_used' = AgentUsed("direct")
    /\ original_tools' = web_tools
    /\ original_prompt' = web_prompt
    /\ pc' = "direct_tools"
    /\ UNCHANGED <<query, decision, exc, agents, toolvars, stdout, stderr, history,
                   interrupts, loop_exc>>
    /\ UNCHANGED <<boot, ivars>>

\* line 107
DirectTools ==
    /\ pc = "direct_tools"
    /\ web_tools' = <<>>
    /\ pc' = "direct_auto"
    /\ UNCHANGED <<locals, exc, router_auto, rag_auto, web_prompt, web_auto, toolvars,
                   stdout, stderr, history, interrupts, loop_exc>>
    /\ UNCHANGED <<boot, ivars>>

\* line 108
DirectAuto ==
    /\ pc = "direct_auto"
    /\ web_auto' = FALSE
    /\ pc' = "direct_prompt"
    /\ UNCHANGED <<locals, exc, router_auto, rag_auto, web_tools, web_prompt, toolvars,
                   stdout, stderr, history, interrupts, loop_exc>>
    /\ UNCHANGED <<boot, ivars>>

\* lines 109-110: set the direct prompt and call web_search_agent.run
DirectPrompt ==
    /\ pc = "direct_prompt"
    /\ web_prompt' = DIRECT_PROMPT
    /\ gen_log' = Append(gen_log, GenCall("web", DIRECT_PROMPT, web_tools, web_auto))
    /\ pc' = "direct_run"
    /\ UNCHANGED <<locals, exc, router_auto, rag_auto, web_tools, web_auto, toolvars,
                   stdout, stderr, turn, router_out, tool_calls, gen_raised, interrupts,
                   loop_exc>>
    /\ UNCHANGED <<boot, ivars>>

\* ------------------------------------------------- inside an agent run
\* The tools the running agent can execute: those of its tool list, when its
\* auto_execute_tools is set.
AvailableTools ==
    IF pc = "rag_run" /\ rag_auto THEN RAG_TOOLS
    ELSE IF pc \in {"web_run", "direct_run"} /\ web_auto THEN web_tools
    ELSE <<>>

Available(tool) == \E i \in DOMAIN AvailableTools : AvailableTools[i] = tool

\* the stack traces printed during a Retrieval Tool call: by the tool's except
\* clause (tools.py 86) and by search_vectors' last except clause
\* (vector_store.py 134)
VectorSearchTraces(emb_api, search_api, body) ==
    (IF body.raised THEN {"vector_search_tool"} ELSE {})
    \cup (IF search_api.kind = "raises" THEN {"search_vectors"} ELSE {})

\* the stack trace printed by the Web Tool's except clause (tools.py 136)
WebSearchTraces(body) == IF body.raised THEN {"web_search_tool"} ELSE {}

\* tools.py lines 23-87: the agent executes the Retrieval Tool; the client is the
\* one of main.py line 91 and the API key is set (main.py line 22)
VectorSearchToolCall ==
    /\ Available(VECTOR_TOOL)
    /\ ws_state = "idle"
    /\ Len(tool_calls) < MaxToolCalls
    /\ \E emb \in EmbeddingApiOutcomes : \E srch \in SearchOutcomesFor(emb) :
         /\ vs_in' = [emb |-> emb, search |-> srch]
         /\ vs_out' = vector_search_tool(connected, query, ~KeyMissing(api_key), emb, srch)
         /\ stderr' = stderr \cup VectorSearchTraces(emb, srch, VectorSearchBody(query, ~KeyMissing(api_key), emb, srch))
    /\ tool_calls' = Append(tool_calls, VECTOR_TOOL)
    /\ UNCHANGED <<pc, locals, exc, agents, ws_state, ws_thread, ws_in, ws_out, stdout,
                   turn, router_out, gen_log, gen_raised, interrupts, loop_exc>>
    /\ UNCHANGED <<boot, ivars>>

\* the gateway call made inline, on the thread of the event loop
GatewayThreadInline == "loop"

\* tools.py lines 110-113: loop.run_in_executor(None, ...) gives the gateway
\* call to a thread of the default executor
GatewayThread == "executor"

\* the event loop's thread is not held by a gateway call in progress, so the
\* loop can run its other callbacks and tasks
LoopFree == ~(ws_state = "submitted" /\ ws_thread = "loop")

\* tools.py lines 103-113: the agent executes the Web Tool, which hands the
\* gateway call to the executor and awaits it
WebToolSubmit ==
    /\ Available(WEB_TOOL)
    /\ ws_state = "idle"
    /\ Len(tool_calls) < MaxToolCalls
    /\ ws_state' = "submitted"
    /\ ws_thread' = GatewayThread
    /\ ws_in' = NoGateway
    /\ tool_calls' = Append(tool_calls, WEB_TOOL)
    /\ UNCHANGED <<pc, locals, exc, agents, vs_in, vs_out, ws_out, stdout, stderr, turn,
                   router_out, gen_log, gen_raised, interrupts, loop_exc>>
    /\ UNCHANGED <<boot, ivars>>

\* tools.py line 112: the worker thread finishes the blocking gateway call
WorkerCompletes ==
    /\ ws_state = "submitted"
    /\ \E g \in GatewayOutcomes : ws_in' = g
    /\ ws_state' = "done"
    /\ UNCHANGED <<pc, locals, exc, agents, vs_in, vs_out, ws_thread, ws_out, stdout, stderr, history,
                   interrupts, loop_exc>>
    /\ UNCHANGED <<boot, ivars>>

\* tools.py lines 114-137: the Web Tool resumes with the worker's outcome
WebToolResume ==
    /\ pc \in {"web_run", "direct_run"}
    /\ ws_state = "done"
    /\ ws_out' = web_search_tool(ws_in)
    /\ stderr' = stderr \cup WebSearchTraces(WebSearchBody(ws_in))
    /\ ws_state' = "idle"
    /\ ws_thread' = "none"
    /\ UNCHANGED <<pc, locals, exc, agents, vs_in, vs_out, ws_in, stdout, history,
                   interrupts, loop_exc>>
    /\ UNCHANGED <<boot, ivars>>

\* the tools' locals are gone once the run is over
ForgetTools ==
    /\ vs_in' = NoVsIn
    /\ vs_out' = Return(<<>>)
    /\ ws_in' = NoGateway
    /\ ws_out' = Return(<<>>)
    /\ UNCHANGED <<ws_state, ws_thread>>

\* how an exception e leaves the execution try block (lines 86-118)
Leave(e) ==
    IF ExecutionCatches(e)
    THEN /\ final_answer' = ErrorAnswer(agent_used)
         /\ stderr' = stderr \cup {"execution"}
         /\ pc' = "display"
         /\ UNCHANGED loop_exc
    ELSE /\ pc' = OuterHandler(e)
         /\ loop_exc' = e
         /\ stderr' = stderr \cup LoopTrace(e)
         /\ UNCHANGED final_answer

\* lines 92-93, 98-99: the run of the RAG or web branch returns
RunReturns ==
    /\ pc \in {"rag_run", "web_run"}
    /\ ws_state = "idle"
    /\ \E res \in RunResults : final_answer' = DataOf(res)
    /\ pc' = "display"
    /\ ForgetTools
    /\ UNCHANGED <<query, decision, agent_used, original_tools, original_prompt, exc,
                   agents, stdout, stderr, history, interrupts, loop_exc>>
    /\ UNCHANGED <<boot, ivars>>

\* lines 115-118: the run of the RAG or web branch raises
RunRaises ==
    /\ pc \in {"rag_run", "web_run"}
    /\ ws_state = "idle"
    /\ Leave("Exception")
    /\ gen_raised' = TRUE
    /\ ForgetTools
    /\ UNCHANGED <<query, decision, agent_used, original_tools, original_prompt, exc,
                   agents, stdout, turn, router_out, gen_log, tool_calls, interrupts>>
    /\ UNCHANGED <<boot, ivars>>

\* lines 110-112: the run of the direct branch returns; the finally block is next
DirectRunReturns ==
    /\ pc = "direct_run"
    /\ ws_state = "idle"
    /\ \E res \in RunResults : final_answer' = DataOf(res)
    /\ pc' = "restore_tools"
    /\ ForgetTools
    /\ UNCHANGED <<query, decision, agent_used, original_tools, original_prompt, exc,
                   agents, stdout, stderr, history, interrupts, loop_exc>>
    /\ UNCHANGED <<boot, ivars>>

\* lines 110, 112: the run of the direct branch raises; the finally block is next
DirectRunRaises ==
    /\ pc = "direct_run"
    /\ ws_state = "idle"
    /\ exc' = "Exception"
    /\ gen_raised' = TRUE
    /\ pc' = "restore_tools"
    /\ ForgetTools
    /\ UNCHANGED <<locals, agents, stdout, stderr, turn, router_out, gen_log, tool_calls,
                   interrupts, loop_exc>>
    /\ UNCHANGED <<boot, ivars>>

\* line 113
RestoreTools ==
    /\ pc = "restore_tools"
    /\ web_tools' = RestoredTools(original_tools, web_tools)
    /\ pc' = "restore_prompt"
    /\ UNCHANGED <<locals, exc, router_auto, rag_auto, web_prompt, web_auto, toolvars,
                   stdout, stderr, history, interrupts, loop_exc>>
    /\ UNCHANGED <<boot, ivars>>

\* lines 114-118: the last statement of the finally block, after which the
\* exception in flight, if any, goes on
RestorePrompt ==
    /\ pc = "restore_prompt"
    /\ web_prompt' = RestoredPrompt(original_prompt, web_prompt)
    /\ IF exc = "none"
       THEN pc' = "display" /\ UNCHANGED <<final_answer, loop_exc, stderr>>
       ELSE Leave(exc)
    /\ exc' = "none"
    /\ UNCHANGED <<query, decision, agent_used, original_tools, original_prompt,
                   router_auto, rag_auto, web_tools, web_auto, toolvars, stdout,
                   history, interrupts>>
    /\ UNCHANGED <<boot, ivars>>

\* lines 120-130
Display ==
    /\ pc = "display"
    /\ stdout' = Displayed(final_answer, agent_used)
    /\ pc' = "input"
    /\ UNCHANGED stderr
    /\ UNCHANGED <<locals, exc, agents, toolvars, history, interrupts, loop_exc>>
    /\ UNCHANGED <<boot, ivars>>

\* --------------------------------------------- interrupts, cancellation
InTry == {"direct_tools", "direct_auto", "direct_prompt", "direct_run"}
InFinally == {"restore_tools", "restore_prompt"}
Awaiting == {"route", "rag_run", "web_run", "direct_run"}
Running == {"input", "route", "select", "rag_run", "web_run", "display"} \cup InTry \cup InFinally

\* Ctrl+C: KeyboardInterrupt is raised before the statement the loop is at,
\* outside lines 106-111; lines 132 and 139
Interrupt ==
    /\ pc \in Running \ InTry
    /\ Leave("KeyboardInterrupt")
    /\ exc' = "none"
    /\ interrupts < MaxInterrupts
    /\ interrupts' = interrupts + 1
    /\ UNCHANGED <<query, decision, agent_used, original_tools, original_prompt,
                   agents, toolvars, stdout, history>>
    /\ UNCHANGED <<boot, ivars>>

\* Ctrl+C inside the try of lines 106-111: the finally block runs first
InterruptInTry ==
    /\ pc \in InTry
    /\ exc' = "KeyboardInterrupt"
    /\ pc' = "restore_tools"
    /\ interrupts < MaxInterrupts
    /\ interrupts' = interrupts + 1
    /\ UNCHANGED <<locals, agents, toolvars, stdout, stderr, history, loop_exc>>
    /\ UNCHANGED <<boot, ivars>>

\* the task running main() is cancelled while it awaits outside the try of
\* lines 106-111: CancelledError is no Exception and no handler of the loop
\* catches it
Cancel ==
    /\ pc \in Awaiting \ InTry
    /\ LoopFree
    /\ Leave("CancelledError")
    /\ interrupts < MaxInterrupts
    /\ interrupts' = interrupts + 1
    /\ UNCHANGED <<query, decision, agent_used, original_tools, original_prompt, exc,
                   agents, toolvars, stdout, history>>
    /\ UNCHANGED <<boot, ivars>>

\* cancelled while awaiting line 110: the finally block runs first
CancelInTry ==
    /\ pc \in Awaiting \cap InTry
    /\ LoopFree
    /\ exc' = "CancelledError"
    /\ pc' = "restore_tools"
    /\ interrupts < MaxInterrupts
    /\ interrupts' = interrupts + 1
    /\ UNCHANGED <<locals, agents, toolvars, stdout, stderr, history, loop_exc>>
    /\ UNCHANGED <<boot, ivars>>

Next ==
    \/ ImportConfig
    \/ CheckKey
    \/ StartupIndex
    \/ CreateAgents
    \/ InputQuit
    \/ InputEmpty
    \/ InputQuery
    \/ InputEOF
    \/ InputError
    \/ RouterReturns
    \/ RouterRaises
    \/ SelectRag
    \/ SelectWeb
    \/ SelectDirect
    \/ DirectTools
    \/ DirectAuto
    \/ DirectPrompt
    \/ VectorSearchToolCall
    \/ WebToolSubmit
    \/ WorkerCompletes
    \/ WebToolResume
    \/ RunReturns
    \/ RunRaises
    \/ DirectRunReturns
    \/ DirectRunRaises
    \/ RestoreTools
    \/ RestorePrompt
    \/ Display
    \/ Interrupt
    \/ InterruptInTry
    \/ Cancel
    \/ CancelInTry

Spec == Init /\ [][Next]_vars

\* ------------------------------------------------- ingestion (ingest_data.py)
\* The run of writer w is between its start and its end.
Active(w) == ipc[w] \notin {"idle", "done"}

Set(f, w, v) == [f EXCEPT ![w] = v]
Go(w, p) == ipc' = Set(ipc, w, p) /\ UNCHANGED status
End(w, st) == ipc' = Set(ipc, w, "done") /\ status' = Set(status, w, st)
Enter(w, stage) == stages' = Set(stages, w, Append(stages[w], stage))
\* w wrote to the index: every other run has seen a write since it started
Disturb(w) == quiet' = [v \in Writers |-> IF v = w THEN quiet[v] ELSE FALSE]

\* lines 74-86: a process starts with a URL argument; an invalid URL ends it
\* with an error message, a valid one is handed to ingest()
Start(w) ==
    /\ ~Active(w)
    /\ runs < MaxRuns
    /\ runs' = runs + 1
    /\ \E u \in Urls :
         /\ url' = Set(url, w, u)
         /\ ipc' = Set(ipc, w, IF ValidUrl(u) THEN "fetch" ELSE "done")
         /\ status' = Set(status, w, IF ValidUrl(u) THEN "running" ELSE "rejected")
         /\ overlapped' = (overlapped \/ (ValidUrl(u) /\ \E v \in Writers \ {w} : Active(v)))
    /\ content' = Set(content, w, None)
    /\ text_chunks' = Set(text_chunks, w, <<>>)
    /\ embeddings' = Set(embeddings, w, <<>>)
    /\ exists_seen' = Set(exists_seen, w, FALSE)
    /\ start_id' = Set(start_id, w, 0)
    /\ stages' = Set(stages, w, <<>>)
    /\ count_ok' = Set(count_ok, w, FALSE)
    /\ count_at' = Set(count_at, w, 0)
    /\ clobbered' = Set(clobbered, w, FALSE)
    /\ snap' = Set(snap, w, <<coll, points>>)
    /\ quiet' = Set(quiet, w, TRUE)
    /\ UNCHANGED <<coll, points, uploaded, loopvars>>

\* lines 16-19: fetch; no content ends the run
Fetch(w) ==
    /\ ipc[w] = "fetch"
    /\ Enter(w, "fetch")
    /\ \E c \in FetchOutcomes :
         /\ content' = Set(content, w, c)
         /\ IF Truthy(c) THEN Go(w, "split") ELSE End(w, "no_content")
    /\ UNCHANGED <<coll, points, url, text_chunks, embeddings, exists_seen, start_id,
                   count_ok, count_at, clobbered, snap, quiet, runs, uploaded,
                   overlapped, loopvars>>

\* lines 24-27: split; no chunk ends the run; an exception of the splitter
\* leaves ingest() and is reported by line 83
Split(w) ==
    /\ ipc[w] = "split"
    /\ Enter(w, "split")
    /\ \E r \in SplitOutcomes(content[w].text) :
         IF r.raised
         THEN End(w, "crashed") /\ UNCHANGED text_chunks
         ELSE /\ text_chunks' = Set(text_chunks, w, r.val)
              /\ IF HasChunks(r.val) THEN Go(w, "embed") ELSE End(w, "no_chunks")
    /\ UNCHANGED <<coll, points, url, content, embeddings, exists_seen, start_id,
                   count_ok, count_at, clobbered, snap, quiet, runs, uploaded,
                   overlapped, loopvars>>

\* lines 32-46: embed the chunks; an exception, no embedding or a number of
\* embeddings other than the number of chunks ends the run
Embed(w) ==
    /\ ipc[w] = "embed"
    /\ Enter(w, "embed")
    /\ \E api \in IngestEmbeddingOutcomes(Len(text_chunks[w])) :
         LET r == get_google_embeddings(text_chunks[w], TRUE, api)
         IN  IF r.raised
             THEN End(w, "embed_failed") /\ UNCHANGED embeddings
             ELSE /\ embeddings' = Set(embeddings, w, r.val)
                  /\ IF EmbeddingsUsable(r.val, text_chunks[w])
                     THEN Go(w, "payloads")
                     ELSE End(w, "embed_mismatch")
    /\ UNCHANGED <<coll, points, url, content, text_chunks, exists_seen, start_id,
                   count_ok, count_at, clobbered, snap, quiet, runs, uploaded,
                   overlapped, loopvars>>

\* lines 49-53: the payloads are built from the URL and the chunks
PreparePayloads(w) ==
    /\ ipc[w] = "payloads"
    /\ Enter(w, "payloads")
    /\ Go(w, "connect")
    /\ UNCHANGED <<coll, points, url, content, text_chunks, embeddings, exists_seen,
                   start_id, count_ok, count_at, clobbered, snap, quiet, runs,
                   uploaded, overlapped, loopvars>>

\* line 59: get_qdrant_client() returns a client or raises (handled by line 70)
Connect(w) ==
    /\ ipc[w] = "connect"
    /\ Enter(w, "connect")
    /\ Go(w, "exists") \/ End(w, "index_failed")
    /\ UNCHANGED <<coll, points, url, content, text_chunks, embeddings, exists_seen,
                   start_id, count_ok, count_at, clobbered, snap, quiet, runs,
                   uploaded, overlapped, loopvars>>

\* vector_store.py 30-31: collection_exists answers, or raises (lines 57-63)
SetupExists(w) ==
    /\ ipc[w] = "exists"
    /\ Enter(w, "setup")
    /\ \/ /\ exists_seen' = Set(exists_seen, w, coll.exists)
          /\ Go(w, IF NeedsCreate(coll.exists) THEN "create" ELSE "verify")
       \/ /\ End(w, "index_failed")
          /\ UNCHANGED exists_seen
    /\ UNCHANGED <<coll, points, url, content, text_chunks, embeddings, start_id,
                   count_ok, count_at, clobbered, snap, quiet, runs, uploaded,
                   overlapped, loopvars>>

\* vector_store.py 32-38: create_collection: the server creates the collection
\* unless it already holds one of that name; a rejected or failed call raises
SetupCreate(w) ==
    /\ ipc[w] = "create"
    /\ \/ /\ ~coll.exists
          /\ coll' = Configured
          /\ Disturb(w)
          /\ Go(w, "count")
       \/ /\ End(w, "index_failed")
          /\ UNCHANGED <<coll, quiet>>
    /\ UNCHANGED <<points, url, content, text_chunks, embeddings, exists_seen,
                   start_id, stages, count_ok, count_at, clobbered, snap, runs,
                   uploaded, overlapped, loopvars>>

\* vector_store.py 41-55: the existing collection is read and compared with the
\* configuration; a mismatch, or a failure to read it, prints a warning
SetupVerify(w) ==
    /\ ipc[w] = "verify"
    /\ Go(w, "count")
    /\ UNCHANGED <<coll, points, url, content, text_chunks, embeddings, exists_seen,
                   start_id, stages, count_ok, count_at, clobbered, snap, quiet,
                   runs, uploaded, overlapped, loopvars>>

\* vector_store.py 74-85: the ids start at the exact count, or at 0 when the
\* count call raises
UploadCount(w) ==
    /\ ipc[w] = "count"
    /\ Enter(w, "count")
    /\ count_at' = Set(count_at, w, Cardinality(DOMAIN points))
    /\ \E c \in {Return(Cardinality(DOMAIN points)), Raise("count failed")} :
         /\ start_id' = Set(start_id, w, StartId(c))
         /\ count_ok' = Set(count_ok, w, ~c.raised)
    /\ Go(w, "upsert")
    /\ UNCHANGED <<coll, points, url, content, text_chunks, embeddings, exists_seen,
                   clobbered, snap, quiet, runs, uploaded, overlapped, loopvars>>

\* vector_store.py 92-112: one upsert of all the points; the server refuses
\* vectors of another size than the collection's; a refused or failed call
\* raises and is reported by line 70 of ingest_data.py
Upsert(w) ==
    /\ ipc[w] = "upsert"
    /\ Enter(w, "upsert")
    /\ LET pts == Zipped(Ids(start_id[w], Len(embeddings[w])), embeddings[w],
                         BuildPayloads(url[w], text_chunks[w]))
           ids == pts.ids
           payloads == pts.payloads
       IN  \/ /\ coll.size = VECTOR_SIZE
              /\ points' = Upserted(points, ids, payloads)
              /\ uploaded' = uploaded + Len(ids)
              /\ clobbered' = Set(clobbered, w, \E i \in DOMAIN ids : ids[i] \in DOMAIN points)
              /\ Disturb(w)
              /\ Go(w, "final_count")
           \/ /\ End(w, "upload_failed")
              /\ UNCHANGED <<points, uploaded, clobbered, quiet>>
    /\ UNCHANGED <<coll, url, content, text_chunks, embeddings, exists_seen, start_id,
                   count_ok, count_at, snap, runs, overlapped, loopvars>>

\* ingest_data.py 62-68: success is printed, then the new count or a warning
FinalCount(w) ==
    /\ ipc[w] = "final_count"
    /\ End(w, "ok")
    /\ UNCHANGED <<coll, points, url, content, text_chunks, embeddings, exists_seen,
                   start_id, stages, count_ok, count_at, clobbered, snap, quiet,
                   runs, uploaded, overlapped, loopvars>>

InitIngest == LoopStart /\ api_key = SetKey /\ \E c \in InitialCollections : IndexStart(c)

NextIngest ==
    \/ \E w \in Writers : Start(w)
    \/ \E w \in Writers : Fetch(w)
    \/ \E w \in Writers : Split(w)
    \/ \E w \in Writers : Embed(w)
    \/ \E w \in Writers : PreparePayloads(w)
    \/ \E w \in Writers : Connect(w)
    \/ \E w \in Writers : SetupExists(w)
    \/ \E w \in Writers : SetupCreate(w)
    \/ \E w \in Writers : SetupVerify(w)
    \/ \E w \in Writers : UploadCount(w)
    \/ \E w \in Writers : Upsert(w)
    \/ \E w \in Writers : FinalCount(w)

SpecIngest == InitIngest /\ [][NextIngest]_vars

\* =============================================================== claims
BothRouted ==
    router_out.kind = "decision" /\ router_out.vector_search /\ router_out.web_search

\* C1: at branch selection the two flags are never both true, and when the
\* Router returned both flags true the effective decision is vector search
\* without web search.
C1_Precedence ==
    pc = "select" =>
      /\ ~(decision.vector_search /\ decision.web_search)
      /\ BothRouted => decision = [vector_search |-> TRUE, web_search |-> FALSE]

C1_Witness == pc = "select" /\ BothRouted

RouterFailed == router_out.kind \in {"raise", "none", "other"}
AfterSelect == InTry \cup InFinally \cup {"rag_run", "web_run", "display"}

\* C2: when the Router raises or returns no RoutingDecision, the turn selects
\* its branch with both flags false, whatever the earlier turn decided, takes
\* the direct-answer branch, and no exception leaves the turn.
C2_RoutingFailure ==
    RouterFailed =>
      /\ pc = "select" => decision = [vector_search |-> FALSE, web_search |-> FALSE]
      /\ pc \in AfterSelect =>
           /\ agent_used = "Direct Answer Agent"
           /\ pc \notin {"rag_run", "web_run"}
      /\ (pc \in AfterSelect \cup {"select"} /\ interrupts = 0) => loop_exc = "none"

\* the Router raises in a turn that follows a knowledge-base turn
C2_Witness ==
    /\ pc = "select"
    /\ router_out.kind = "raise"
    /\ agent_used = "RAG Agent (Vector Search)"

WebAgentAsCreated ==
    web_prompt = WEB_SEARCH_SYSTEM_PROMPT /\ web_tools = <<WEB_TOOL>>

\* C3: whenever no turn is in flight, after turns that were not interrupted,
\* the web agent's system prompt and tool list are those it was created with.
C3_Restoration ==
    (pc \in {"input", "shutdown"} /\ interrupts = 0) => WebAgentAsCreated

\* a direct turn whose generation call raised has ended
C3_Witness ==
    /\ pc = "input"
    /\ agent_used = "Direct Answer Agent"
    /\ gen_raised
    /\ stdout # <<>>

\* C4: a turn that was interrupted once (Ctrl+C or cancellation) leaves the web
\* agent's prompt and tool list as created when the loop has exited.
C4_ReleaseOnInterrupt ==
    (interrupts = 1 /\ pc \in {"shutdown", "cancelled"}) => WebAgentAsCreated

ExpectedErrorAnswer ==
    IF decision.vector_search
    THEN <<"Error processing request via RAG Agent (Vector Search). Please check logs.">>
    ELSE IF decision.web_search
    THEN <<"Error processing request via Web Search Agent. Please check logs.">>
    ELSE <<"Error processing request via Direct Answer Agent. Please check logs.">>

\* C5: once a generation call has raised, the turn goes on to its display step
\* with the final answer "Error processing request via {agent_used}. Please
\* check logs." for the branch selected, shows it, and no exception reaches the
\* loop's handlers.
C5_GenerationFailure ==
    gen_raised =>
      /\ interrupts = 0 => pc \in InFinally \cup {"display", "input", "shutdown"}
      /\ pc = "display" =>
           /\ final_answer = [is_none |-> FALSE, text |-> ExpectedErrorAnswer]
           /\ loop_exc = "none"
      /\ pc \in InFinally /\ interrupts = 0 => loop_exc = "none"
      /\ pc \in {"input", "shutdown"} /\ interrupts = 0 =>
           /\ Len(stdout) = 3
           /\ stdout[2] = ExpectedErrorAnswer

\* the generation call of a web turn raised and the turn is at its display step
C5_Witness == gen_raised /\ pc = "display" /\ agent_used = "Web Search Agent"

TurnDisplayed == pc = "display" \/ (pc = "input" /\ stdout # <<>>)
Called(tool) == \E i \in DOMAIN tool_calls : tool_calls[i] = tool

\* C6: no generation call starts before the Router has answered; a turn makes
\* at most one generation call and exactly one when it reaches its display step;
\* the call is the knowledge-base agent's when vector_search is set, the web
\* agent's with its web tool (and no Retrieval Tool call) when only web_search is
\* set, and the direct-answer configuration without tools when neither is set.
C6_BranchSelection ==
    /\ gen_log # <<>> => router_out.kind # "pending"
    /\ Len(gen_log) <= 1
    /\ TurnDisplayed => Len(gen_log) = 1
    /\ gen_log # <<>> =>
         LET g == gen_log[1]
         IN  /\ decision.vector_search =>
                  /\ g.agent = "rag"
                  /\ ~Called(WEB_TOOL)
             /\ (~decision.vector_search /\ decision.web_search) =>
                  /\ g.agent = "web"
                  /\ g.prompt = WEB_SEARCH_SYSTEM_PROMPT
                  /\ g.tools = <<WEB_TOOL>>
                  /\ ~Called(VECTOR_TOOL)
             /\ (~decision.vector_search /\ ~decision.web_search) =>
                  /\ g.agent = "web"
                  /\ g.prompt = DIRECT_PROMPT
                  /\ g.tools = <<>>
                  /\ tool_calls = <<>>

\* a web turn that executed the Web Tool is at its display step
C6_Witness ==
    /\ pc = "display"
    /\ decision.web_search
    /\ Called(WEB_TOOL)

\* the statements between the mutation of line 107 and the end of line 114
DirectSection == {"direct_auto", "direct_prompt", "direct_run"} \cup InFinally

\* C7: turns run one at a time: while a direct turn is between its mutate and
\* its restore step the only generation call is its own; a web turn never
\* generates with the direct prompt or an empty tool list; and what a direct
\* turn saved, and writes back, is what the web agent was created with.
C7_CriticalSection ==
    /\ pc \in DirectSection =>
         /\ agent_used = "Direct Answer Agent"
         /\ \A i \in DOMAIN gen_log : gen_log[i].prompt = DIRECT_PROMPT
         /\ Len(gen_log) <= 1
    /\ \A i \in DOMAIN gen_log :
         (agent_used = "Web Search Agent" /\ gen_log[i].agent = "web") =>
           /\ gen_log[i].prompt # DIRECT_PROMPT
           /\ gen_log[i].tools # <<>>
    /\ pc \in InTry \cup InFinally =>
         /\ original_tools = <<WEB_TOOL>>
         /\ original_prompt = WEB_SEARCH_SYSTEM_PROMPT

\* a web turn generates after a direct turn has run
C7_Witness ==
    /\ pc = "web_run"
    /\ original_tools = <<WEB_TOOL>>
    /\ turn = 2

\* the Retrieval Tool has been executed and its outcome is at hand
VsCalled == vs_in.emb.kind # "none"
EmbeddingRaised == vs_in.emb.kind \in {"configure_raises", "embed_raises", "bad_structure"}

\* C8: whatever the embedding call and the index search do, the Retrieval Tool
\* does not raise and returns a non-empty string; when the embedding call raises
\* the string is an error message carrying the failure's description.
C8_RetrievalNeverRaises ==
    VsCalled =>
      /\ ~vs_out.raised
      /\ vs_out.val # <<>>
      /\ \E i \in DOMAIN vs_out.val : vs_out.val[i] # ""
      /\ EmbeddingRaised =>
           /\ Len(vs_out.val) = 2
           /\ vs_out.val[1] = "An unexpected error occurred during vector search: "
           /\ vs_out.val[2] # ""

\* the tool was executed and the embedding call raised
C8_Witness == VsCalled /\ vs_in.emb.kind = "embed_raises"

\* the search was issued and came back without hits
EmptyResultSet == vs_in.search.kind = "ok" /\ vs_in.search.hits = <<>>

\* C9: when the similarity search returns no hits the Retrieval Tool returns
\* the literal "No relevant documents found in the knowledge base for this
\* query.", and does not raise.
C9_NothingFound ==
    (VsCalled /\ EmptyResultSet) =>
      /\ ~vs_out.raised
      /\ vs_out.val = <<"No relevant documents found in the knowledge base for this query.">>

C9_Witness == VsCalled /\ EmptyResultSet

RECURSIVE SplitBlocks(_, _)
\* the blocks of a text, split at each "\n\n---\n\n" piece; cur is the block so far
SplitBlocks(t, cur) ==
    IF t = <<>> THEN <<cur>>
    ELSE IF Head(t) = "\n\n---\n\n" THEN <<cur>> \o SplitBlocks(Tail(t), <<>>)
    ELSE SplitBlocks(Tail(t), Append(cur, Head(t)))

\* the search returned at least one hit and every hit carries content
AllHitsHaveContent ==
    /\ vs_in.search.kind = "ok"
    /\ vs_in.search.hits # <<>>
    /\ \A i \in DOMAIN vs_in.search.hits :
         vs_in.search.hits[i].payload.present /\ vs_in.search.hits[i].payload.has_content

\* C10: for N >= 1 hits that all carry content, the output is exactly N blocks
\* separated by "\n\n---\n\n"; block k is "Document k (Score: s):\n" followed by
\* the content of the k-th hit, s its score, in the order the index returned.
C10_Formatting ==
    (VsCalled /\ AllHitsHaveContent) =>
      LET hits == vs_in.search.hits
          blocks == SplitBlocks(vs_out.val, <<>>)
      IN  /\ ~vs_out.raised
          /\ Len(blocks) = Len(hits)
          /\ \A k \in DOMAIN hits :
               /\ Len(blocks[k]) = 6
               /\ blocks[k][1] = "Document "
               /\ blocks[k][2] = ToString(k)
               /\ blocks[k][3] = " (Score: "
               /\ blocks[k][4] = Fmt4f(hits[k].score)
               /\ blocks[k][5] = "):\n"
               /\ blocks[k][6] = hits[k].payload.content

\* three hits with content, the first two with different contents
C10_Witness ==
    /\ VsCalled
    /\ AllHitsHaveContent
    /\ Len(vs_in.search.hits) = RAG_TOP_K
    /\ vs_in.search.hits[1].payload.content # vs_in.search.hits[2].payload.content

RECURSIVE WithContent(_, _)
\* the ranks (1-based) of the hits that carry content, from rank k on, in order
WithContent(hits, k) ==
    IF k > Len(hits) THEN <<>>
    ELSE IF hits[k].payload.present /\ hits[k].payload.has_content
         THEN <<k>> \o WithContent(hits, k + 1)
         ELSE WithContent(hits, k + 1)

\* the search returned hits
SomeHits == vs_in.search.kind = "ok" /\ vs_in.search.hits # <<>>

\* C11: hits without payload or without content are skipped and the call does
\* not fail: the output has one block per hit with content, in index order,
\* carrying that hit's rank and content, and none for the others; when every
\* hit is skipped the output is the "content unavailable" message, which is not
\* the "nothing found" message.
C11_SkippedHits ==
    (VsCalled /\ SomeHits) =>
      LET hits == vs_in.search.hits
          kept == WithContent(hits, 1)
          blocks == SplitBlocks(vs_out.val, <<>>)
      IN  /\ ~vs_out.raised
          /\ kept # <<>> =>
               /\ Len(blocks) = Len(kept)
               /\ \A j \in DOMAIN kept :
                    /\ Len(blocks[j]) = 6
                    /\ blocks[j][1] = "Document "
                    /\ blocks[j][2] = ToString(kept[j])
                    /\ blocks[j][6] = hits[kept[j]].payload.content
          /\ kept = <<>> =>
               /\ vs_out.val = <<"Found relevant document references, but could not retrieve their content.">>
               /\ vs_out.val # <<"No relevant documents found in the knowledge base for this query.">>

\* three hits of which the second has no payload and the others have content
C11_Witness ==
    /\ VsCalled
    /\ SomeHits
    /\ Len(vs_in.search.hits) = RAG_TOP_K
    /\ WithContent(vs_in.search.hits, 1) = <<1, 3>>

\* every hit was skipped
C11_WitnessAllSkipped ==
    VsCalled /\ SomeHits /\ WithContent(vs_in.search.hits, 1) = <<>>

\* the Web Tool has resumed from the executor call and returned
WsReturned == ws_state = "idle" /\ ws_in.kind # "none"

\* C12: the Web Tool does not raise: when the gateway raises it returns an error
\* message carrying the failure's description; when the gateway returns nothing
\* it returns "No relevant results found on the web for this query."; otherwise
\* it returns one "Result k" block per gateway result, in gateway order.
C12_WebToolNeverRaises ==
    WsReturned =>
      /\ ~ws_out.raised
      /\ ws_in.kind = "raises" =>
           /\ Len(ws_out.val) = 2
           /\ ws_out.val[1] = "An unexpected error occurred during web search: "
           /\ ws_out.val[2] # ""
      /\ (ws_in.kind = "ok" /\ ws_in.results = <<>>) =>
           ws_out.val = <<"No relevant results found on the web for this query.">>
      /\ (ws_in.kind = "ok" /\ ws_in.results # <<>>) =>
           LET blocks == SplitBlocks(ws_out.val, <<>>)
           IN  /\ Len(blocks) = Len(ws_in.results)
               /\ \A k \in DOMAIN blocks :
                    /\ Len(blocks[k]) = 8
                    /\ blocks[k][1] = "Result "
                    /\ blocks[k][2] = ToString(k)
                    /\ blocks[k][5] = "\nURL: "
                    /\ ws_in.results[k].has_title => blocks[k][4] = ws_in.results[k].title
                    /\ ws_in.results[k].has_href => blocks[k][6] = ws_in.results[k].href
                    /\ ws_in.results[k].has_body => blocks[k][8] = ws_in.results[k].body

\* the gateway raised and the tool has returned
C12_Witness == WsReturned /\ ws_in.kind = "raises"

\* the word quit in any mix of cases
QuitLike(q) ==
    /\ Len(q) = 4
    /\ q[1] \in {"q", "Q"}
    /\ q[2] \in {"u", "U"}
    /\ q[3] \in {"i", "I"}
    /\ q[4] \in {"t", "T"}

\* a trimmed line that is not empty
Trimmed(q) ==
    /\ q # <<>>
    /\ q[1] \notin {" ", "\t", "\n"}
    /\ q[Len(q)] \notin {" ", "\t", "\n"}

\* the line of seventy "=" printed by line 130
SeparatorLine == "======================================================================"

\* C19: after quit (trimmed, any case) or end of input no turn starts and
\* nothing more happens in the loop; an empty or blank line starts no turn,
\* calls no Router and prints nothing; a turn starts only from a trimmed
\* non-empty line other than quit, one turn per line; and a started turn comes
\* back to reading input only by printing its final answer followed by the
\* seventy-character separator line.
C19_InteractiveLoop ==
    [][ /\ pc = "shutdown" => UNCHANGED <<pc, turn, stdout, router_out, query>>
        /\ (pc = "input" /\ QuitLike(query') /\ query' # query) =>
             /\ pc' = "shutdown"
             /\ UNCHANGED <<turn, stdout, router_out>>
        /\ (pc = "input" /\ query' = <<>> /\ loop_exc' = loop_exc) =>
             UNCHANGED <<pc, turn, stdout, router_out, gen_log>>
        /\ turn' # turn =>
             /\ turn' = turn + 1
             /\ pc = "input"
             /\ pc' = "route"
             /\ Trimmed(query')
             /\ ~QuitLike(query')
        /\ (pc \notin {"input", "create_agents"} /\ pc' = "input") =>
             /\ pc = "display"
             /\ Len(stdout') = 3
             /\ stdout'[1] = <<"\n--- Final Answer ---">>
             /\ stdout'[3] = <<"\n", SeparatorLine, "\n">>
      ]_vars

\* quit typed in another case ended the loop after one displayed turn
C19_Witness ==
    /\ pc = "shutdown"
    /\ QuitLike(query)
    /\ query # QUIT
    /\ turn = 1
    /\ Len(stdout) = 3
    /\ interrupts = 0

\* the answer line of a displayed turn
Shown == stdout[2]

\* C20: a displayed turn shows the generation result trimmed, or the
\* no-response sentinel when generation produced nothing, and never an empty
\* answer.
C20_TurnOutput ==
    (pc = "input" /\ stdout # <<>>) =>
      /\ \E i \in DOMAIN Shown : Shown[i] \notin {"", " ", "\t", "\n"}
      /\ (final_answer.is_none \/ final_answer.text = <<>>) =>
           Shown = <<"<", agent_used, " could not generate a response.>">>

\* ------------------------------------------------------ claims on ingestion
Entered(w, stage) == \E i \in DOMAIN stages[w] : stages[w][i] = stage
PointCount == Cardinality(DOMAIN points)

\* the run of w got a number of embeddings other than its number of chunks
Mismatch(w) == Entered(w, "embed") /\ ipc[w] # "embed"
               /\ Len(embeddings[w]) # Len(text_chunks[w])

\* C13: a run whose embeddings are not as many as its chunks (none included)
\* ends before the index is touched: it enters no stage after embedding, issues
\* no upsert, and, no other run having written meanwhile, the collection holds
\* the points it held when the run started.
C13_MismatchAborts ==
    \A w \in Writers :
      Mismatch(w) =>
        /\ ipc[w] = "done"
        /\ \A st \in {"payloads", "connect", "setup", "count", "upsert"} : ~Entered(w, st)
        /\ quiet[w] => (points = snap[w][2] /\ PointCount = Cardinality(DOMAIN snap[w][2]))

\* a run got embeddings, but not one per chunk, on a collection that holds points
C13_Witness ==
    \E w \in Writers :
      /\ Mismatch(w)
      /\ embeddings[w] # <<>>
      /\ quiet[w]
      /\ PointCount > 0

\* the stages of ingest() in the order of its text: fetch, split, embed, build
\* the payloads, then the upload (connect, collection setup, count, upsert)
STAGES == <<"fetch", "split", "embed", "payloads", "connect", "setup", "count", "upsert">>

\* the run of w ended by its stage number n and left the index as it found it
StoppedAt(w, n) ==
    /\ stages[w] = SubSeq(STAGES, 1, n)
    /\ ipc[w] = "done"
    /\ quiet[w] => <<coll, points>> = snap[w]

\* C14: a run enters its stages in the order fetch, split, embed, payloads,
\* upload, each only after the earlier ones gave a non-empty result; when the
\* fetch gives nothing, the split gives no chunk, or the embedding raises or
\* gives nothing, the run stops there: no later stage, no upsert, the index as
\* it was; and an upsert stores every chunk of the run, never a part of them.
C14_StageGating ==
    \A w \in Writers :
      /\ stages[w] = SubSeq(STAGES, 1, Len(stages[w]))
      /\ Entered(w, "split") => (~content[w].is_none /\ content[w].text # <<>>)
      /\ Entered(w, "embed") => text_chunks[w] # <<>>
      /\ Entered(w, "payloads") => embeddings[w] # <<>>
      /\ (Entered(w, "fetch") /\ (content[w].is_none \/ content[w].text = <<>>)) =>
           StoppedAt(w, 1)
      /\ (Entered(w, "split") /\ text_chunks[w] = <<>>) => StoppedAt(w, 2)
      /\ (Entered(w, "embed") /\ embeddings[w] = <<>>) => StoppedAt(w, 3)
      /\ (ipc[w] = "final_count" /\ ~overlapped) =>
           \A i \in DOMAIN text_chunks[w] :
             /\ start_id[w] + i - 1 \in DOMAIN points
             /\ points[start_id[w] + i - 1].content = text_chunks[w][i]

\* a blank page gave no chunk and the run stopped, on a collection that holds points
C14_Witness ==
    \E w \in Writers :
      /\ content[w] = Str(<<" ", "\n">>)
      /\ stages[w] = <<"fetch", "split">>
      /\ text_chunks[w] = <<>>
      /\ ipc[w] = "done"
      /\ quiet[w]
      /\ PointCount > 0

\* C15: whenever upload_embeddings assigns the ids itself for n vectors, they
\* are c .. c+n-1, c being the collection's exact point count when the upload
\* asked for it, also when the count call fails.
C15_IdAssignment ==
    \A w \in Writers :
      Entered(w, "count") =>
        Ids(start_id[w], Len(embeddings[w])) =
          [i \in 1..Len(embeddings[w]) |-> count_at[w] + i - 1]

\* the run of w took its ids from a count that answered, and its upsert
\* replaced points already stored
RaceLoss(w) == count_ok[w] /\ clobbered[w]

\* C16: points are lost to ids computed from the count only when two runs are
\* concurrent: as long as the runs are one at a time, no run whose count call
\* answered replaces a stored point; with two concurrent runs both can read
\* the same count before either upserts, and the later upsert then replaces the
\* other's points, leaving fewer points than vectors uploaded.
C16_ConcurrentRace == (\E w \in Writers : RaceLoss(w)) => overlapped

\* both runs read the same count, both upserted, and the collection holds
\* fewer points than were uploaded
C16_Witness ==
    /\ overlapped
    /\ \A w \in Writers : ipc[w] = "final_count" /\ count_ok[w]
    /\ start_id["A"] = start_id["B"]
    /\ \E w \in Writers : RaceLoss(w)
    /\ PointCount < uploaded

\* C17: as long as the runs are one at a time, on a collection that started
\* empty, every upsert only adds points: none is replaced, the stored ids are
\* 0 .. count-1 and the count is the number of vectors uploaded, so a URL
\* ingested twice is stored twice.
C17_SingleWriterAppend ==
    ~overlapped =>
      /\ \A w \in Writers : ~clobbered[w]
      /\ DOMAIN points = 0..(PointCount - 1)
      /\ PointCount = uploaded

\* C18: collection setup creates only when collection_exists answered that the
\* collection is absent (and, runs being one at a time, it is absent when the
\* create is issued); the collection changes only by being created, with the
\* configured size and metric; once it exists its size and metric never change
\* and it is never deleted or recreated; and when it exists, matching or not,
\* readable or not, setup ends normally and the run goes on to the upload.
C18_SetupIdempotent ==
    [][ /\ coll' # coll =>
             (~coll.exists /\ coll' = [exists |-> TRUE, size |-> VECTOR_SIZE, metric |-> "COSINE"])
        /\ coll.exists => (coll' = coll /\ DOMAIN points \subseteq DOMAIN points')
        /\ \A w \in Writers :
             /\ (ipc[w] = "exists" /\ ipc'[w] = "create") => ~coll.exists
             /\ (ipc[w] = "create" /\ ~overlapped) => ~coll.exists
             /\ (ipc[w] = "verify" /\ ipc'[w] # "verify") =>
                  /\ exists_seen[w]
                  /\ ipc'[w] = "count"
                  /\ status'[w] = "running"
                  /\ coll' = coll
      ]_vars

\* setup found a collection of another size and metric and the run went on
C18_Witness ==
    \E w \in Writers :
      /\ ipc[w] = "count"
      /\ exists_seen[w]
      /\ coll.exists
      /\ coll.size # VECTOR_SIZE

\* ------------------------------------------- claims on failures and startup
\* the texts by which the Retrieval Tool reports an error
IsErrorText(t) ==
    /\ t # <<>>
    /\ t[1] \in {"Error: Vector search cannot be performed due to missing client setup.",
                 "Error: Could not generate embedding for the search query.",
                 "An unexpected error occurred during vector search: "}

\* the embedding call raised or gave no embedding
EmbeddingFailed == vs_in.emb.kind # "ok" \/ vs_in.emb.embedding = <<>>

\* C26: when the index client raises during the search, the Retrieval Tool
\* returns the "nothing found" message of an empty result set and no error
\* text; the tool returns an error text only when the embedding failed.
C26_SearchFailureInBand ==
    VsCalled =>
      /\ vs_in.search.kind \in {"unexpected_response", "raises"} =>
           /\ ~vs_out.raised
           /\ vs_out.val = <<"No relevant documents found in the knowledge base for this query.">>
           /\ ~IsErrorText(vs_out.val)
      /\ IsErrorText(vs_out.val) => EmbeddingFailed

\* the index client raised during a search
C26_Witness == VsCalled /\ vs_in.search.kind = "raises"

\* C25: the generation call of a web-search turn starts with the web agent as
\* it was created: its own system prompt, its tool list holding the web tool,
\* and auto_execute_tools true, whatever turns came before, a direct turn
\* included.
C25_WebTurnConfiguration ==
    pc = "web_run" =>
      /\ gen_log # <<>>
      /\ gen_log[Len(gen_log)] =
           [agent |-> "web", prompt |-> WEB_SEARCH_SYSTEM_PROMPT,
            tools |-> <<"WebSearchCurrentEvents">>, auto |-> TRUE]
      /\ web_prompt = WEB_SEARCH_SYSTEM_PROMPT
      /\ web_tools = <<"WebSearchCurrentEvents">>
      /\ web_auto

\* a web-search turn is generating right after a direct turn
C25_Witness ==
    /\ pc = "web_run"
    /\ turn = 2
    /\ original_prompt = WEB_SEARCH_SYSTEM_PROMPT
    /\ original_tools = <<"WebSearchCurrentEvents">>

\* a web search is in progress: the gateway call has been handed over and has
\* not finished
SearchInProgress == ws_state = "submitted"

\* C24: the gateway call runs on an executor thread and not on the event
\* loop's thread: while a web search is in progress the loop is free, so that
\* it can still deliver a cancellation to the awaiting task; the gateway's
\* outcome appears only by a step of the worker, the awaiting task standing
\* still; and the Web Tool resumes only once the worker has returned or raised.
C24_GatewayOnWorker ==
    /\ [](SearchInProgress =>
            /\ ws_thread = "executor"
            /\ (pc = "web_run" /\ interrupts < MaxInterrupts) => ENABLED Cancel)
    /\ [][ /\ (ws_in' # ws_in /\ ws_in'.kind # "none") =>
                /\ SearchInProgress
                /\ ws_thread = "executor"
                /\ ws_state' = "done"
                /\ UNCHANGED <<pc, ws_out, tool_calls>>
           /\ (ws_state # "idle" /\ ws_state' = "idle") =>
                /\ ws_state = "done"
                /\ ws_in.kind \in {"ok", "raises"}
         ]_vars

\* the worker is running the gateway call while the web-search turn awaits it
C24_Witness == SearchInProgress /\ pc = "web_run" /\ ws_thread = "executor"

\* C23: on every failure path of a query turn (the Router raising, the
\* generation raising, an unexpected error of the loop) the user is shown a
\* text only: no handler of main() writes a stack trace.
C23_NoStackTrace ==
    /\ stderr \cap {"routing", "execution", "loop"} = {}
    /\ (gen_raised /\ pc = "input" /\ stdout # <<>> /\ loop_exc = "none") =>
         stdout[2] = <<"Error processing request via " \o agent_used \o ". Please check logs.">>

\* GOOGLE_API_KEY is absent or empty
KeyAbsent == api_key.is_none \/ api_key.text = <<>>

\* C22: with GOOGLE_API_KEY absent or empty the process ends at startup: it
\* creates no agent, connects to no index (the collection is left as it was)
\* and reads no query.
C22_MissingKeyFatal ==
    KeyAbsent =>
      /\ pc \in {"import", "exit"}
      /\ created = <<>>
      /\ ~connected
      /\ coll = [exists |-> FALSE, size |-> 0, metric |-> ""]
      /\ turn = 0
      /\ query = <<>>
      /\ gen_log = <<>>

\* the process has ended at startup because the key is empty
C22_Witness == api_key = Str(<<>>) /\ pc = "exit"

\* the run of w was started with an argument that begins with neither
\* http:// nor https://
BadUrl(w) ==
    /\ status[w] # "idle"
    /\ url[w] = <<>> \/ url[w][1] \notin {"http://", "https://"}

\* C21: a process started with a URL that begins with neither http:// nor
\* https:// never starts the pipeline: it fetches nothing, asks for no
\* embedding, makes no call to the index, and leaves the index as it was.
C21_UrlValidation ==
    \A w \in Writers :
      BadUrl(w) =>
        /\ ipc[w] = "done"
        /\ stages[w] = <<>>
        /\ content[w] = [is_none |-> TRUE, text |-> <<>>]
        /\ embeddings[w] = <<>>
        /\ ~count_ok[w]
        /\ quiet[w] => <<coll, points>> = snap[w]

\* a run was refused for its scheme in capitals, on a collection that holds points
C21_Witness ==
    \E w \in Writers :
      /\ url[w] = <<"HTTP://", "site/a">>
      /\ ipc[w] = "done"
      /\ quiet[w]
      /\ PointCount > 0

====
